---- MODULE Spec2Model ----
(***************************************************************************)
(* elastic-vandelay (src/main.go, kingpin version, lines 1-488): export of *)
(* an Elasticsearch index to a line-delimited file and import of such a    *)
(* file into a new index.  Two goroutines of one errgroup (a source reader *)
(* and a sink writer) are joined by the unbuffered channel `hits`.         *)
(*                                                                         *)
(* The world (the endpoint's indices, the data file, the mapping files)    *)
(* outlives a run of the program; a behaviour is a sequence of at most     *)
(* MaxRuns invocations of the program against the same world.              *)
(***************************************************************************)
EXTENDS Integers, Sequences, FiniteSets, TLC

\* ------------------------------------------------------------------ bounds
\* Longest source collection, in documents.
MaxDocs == 3
\* Longest initial data file, in lines.
MaxLines == 4
\* Stand-in for the scroll page size (`size`, 10000 in the program).
PageSize == 2
\* Invocations of the program in one behaviour.
MaxRuns == 2
\* Longest data-file path, in path tokens.
MaxPathLen == 4

\* ------------------------------------------------------------------ values
Nil == "nil"
\* Errors a task or a call can return.
ErrRemote == "RemoteUnavailable"
ErrIO == "IOError"
ErrCanceled == "context canceled"
ErrNotFound == "CollectionNotFound"
ErrExists == "CollectionAlreadyExists"
ErrSchemaMissing == "SchemaFileMissing"
ErrParse == "SchemaParseError"
ErrUsage == "usage"
ErrPanic == "panic"
ErrEOF == "EOF"

\* Byte tokens with a meaning for the line format.
NL == "NL"
BS == "BS"
\* gzip framing: header, trailer.
GZH == "GZH"
GZT == "GZT"

Min(a, b) == IF a < b THEN a ELSE b

\* A SearchHit, as far as the program uses it: _index, _id, _source.  The
\* source is a byte sequence; it may hold a newline or a backslash.
Hit(i, d, s) == [index |-> i, id |-> d, source |-> s]
ZeroHit == Hit("", "", <<>>)
AllHits ==
  << Hit("events", "a", <<"x">>),
     Hit("events", "b", <<NL>>),
     Hit("events", "c", <<BS, "n">>),
     Hit("events", "d", <<"x", BS>>),
     Hit("events", "e", <<"n", NL>>) >>
IndexNames == {"events", "events2"}
DocIds == {AllHits[i].id : i \in 1..Len(AllHits)}

RECURSIVE Flatten(_)
Flatten(ss) == IF ss = <<>> THEN <<>> ELSE Head(ss) \o Flatten(Tail(ss))

IsPrefix(s, t) == Len(s) <= Len(t) /\ SubSeq(t, 1, Len(s)) = s

\* ------------------------------------------------- encoding/json, one line
\* json.Marshal writes a newline inside the source as backslash-n and a
\* backslash as two backslashes: a marshalled hit holds no newline byte.
RECURSIVE Escape(_)
Escape(s) ==
  IF s = <<>> THEN <<>>
  ELSE IF Head(s) = NL THEN <<BS, "n">> \o Escape(Tail(s))
  ELSE IF Head(s) = BS THEN <<BS, BS>> \o Escape(Tail(s))
  ELSE <<Head(s)>> \o Escape(Tail(s))

\* The inverse; ok is FALSE on a dangling or unknown escape and on a raw
\* newline inside the value.
RECURSIVE Unescape(_)
Unescape(s) ==
  IF s = <<>> THEN [ok |-> TRUE, v |-> <<>>]
  ELSE IF Head(s) = NL THEN [ok |-> FALSE, v |-> <<>>]
  ELSE IF Head(s) = BS THEN
    IF Len(s) < 2 \/ s[2] \notin {"n", BS} THEN [ok |-> FALSE, v |-> <<>>]
    ELSE LET r == Unescape(Tail(Tail(s)))
         IN [ok |-> r.ok,
             v |-> IF r.ok THEN <<IF s[2] = "n" THEN NL ELSE BS>> \o r.v ELSE <<>>]
  ELSE LET r == Unescape(Tail(s))
       IN [ok |-> r.ok, v |-> IF r.ok THEN <<Head(s)>> \o r.v ELSE <<>>]

\* json.Marshal(elastic.SearchHit): the _index and _id members, then the
\* escaped _source.
MarshalRaw(h) == <<h.index, h.id>> \o h.source
Marshal(h) == <<h.index, h.id>> \o Escape(h.source)

\* json.Unmarshal(line, &res): trailing white space (the newline ReadBytes
\* keeps) is skipped; on an error res stays the zero SearchHit.
Unmarshal(line) ==
  LET body == IF line # <<>> /\ line[Len(line)] = NL
              THEN SubSeq(line, 1, Len(line) - 1) ELSE line
      src == IF Len(body) >= 2 THEN Unescape(SubSeq(body, 3, Len(body)))
             ELSE [ok |-> FALSE, v |-> <<>>]
  IN IF Len(body) >= 2 /\ body[1] \in IndexNames /\ body[2] \in DocIds /\ src.ok
     THEN [ok |-> TRUE, hit |-> Hit(body[1], body[2], src.v)]
     ELSE [ok |-> FALSE, hit |-> ZeroHit]

\* bufio.Reader.ReadBytes('\n') on the bytes that are left: the line up to
\* and including the first newline, or everything with eof when there is none.
RECURSIVE NLIndex(_, _)
NLIndex(s, i) ==
  IF i > Len(s) THEN 0 ELSE IF s[i] = NL THEN i ELSE NLIndex(s, i + 1)

ReadBytesToEnd(s) ==
  LET k == NLIndex(s, 1)
  IN IF k = 0 THEN [eof |-> s = <<>>, line |-> s, rest |-> <<>>]
     ELSE [eof |-> FALSE, line |-> SubSeq(s, 1, k), rest |-> SubSeq(s, k + 1, Len(s))]
ReadBytes(s) ==
  LET k == NLIndex(s, 1)
  IN IF k = 0 THEN [eof |-> TRUE, line |-> s, rest |-> <<>>]
     ELSE [eof |-> FALSE, line |-> SubSeq(s, 1, k), rest |-> SubSeq(s, k + 1, Len(s))]

\* ------------------------------------------------------------------- gzip
\* gzip.Writer: the header and the compressed data reach the file when the
\* writer is closed (or its window fills); the trailer only on Close.
GzipClose(data) == <<GZH>> \o data \o <<GZT>>

\* gzip.NewReader fails unless the file starts with a header; the data end
\* in an unexpected-EOF error unless the trailer follows.
GzOpenOK(bytes) == bytes # <<>> /\ Head(bytes) = GZH
GzData(bytes) ==
  LET t == Tail(bytes)
  IN IF t # <<>> /\ t[Len(t)] = GZT THEN SubSeq(t, 1, Len(t) - 1) ELSE t
GzComplete(bytes) == Len(bytes) >= 2 /\ bytes[Len(bytes)] = GZT

\* ------------------------------------------------------------------- JSON
\* A JSON value is the set of its root-to-leaf paths: the keys on the way
\* down, then the scalar at the leaf ("{}" for an empty object).  A scalar
\* is a single path of length one.
EmptyObj == {<<"{}">>}
IsObject(v) == v = EmptyObj \/ (v # {} /\ \A p \in v : Len(p) >= 2)
Keys(v) == {p[1] : p \in {q \in v : Len(q) >= 2}}
\* v[k]; the empty set stands for Go's nil (no such key).
Member(v, k) == {Tail(p) : p \in {q \in v : Len(q) >= 2 /\ q[1] = k}}
\* {k: v}
Wrap(k, v) == {<<k>> \o p : p \in v}

\* The field mappings of the source index, and mapping files as they may
\* lie beside a data file: GetMapping's answer for "events", the same with
\* a second section beside "mappings", and shapes that are no such answer.
FieldMappings == {<<"properties", "f", "text">>, <<"properties", "g", "date">>}
GoodMapping == Wrap("events", Wrap("mappings", FieldMappings))
RichMapping == GoodMapping \cup Wrap("events", Wrap("settings", {<<"shards", "1">>}))
TwoKeyMapping == GoodMapping \cup Wrap("other", Wrap("mappings", {<<"properties", "h", "long">>}))
ScalarMapping == {<<"text">>}
FlatMapping == Wrap("events", {<<"text">>})
NoSectionMapping == Wrap("events", Wrap("settings", {<<"shards", "1">>}))
MappingFiles ==
  {GoodMapping, RichMapping, TwoKeyMapping, ScalarMapping, EmptyObj,
   FlatMapping, NoSectionMapping}

\* ------------------------------------------------------------------ paths
\* A path is a sequence of tokens; ".gz" and ".json" are tokens of their own.
PathTokens == {".gz", ".json", "out", "/"}

\* strings.TrimSuffix(s, t)
TrimSuffix(s, t) == IF s # <<>> /\ s[Len(s)] = t THEN SubSeq(s, 1, Len(s) - 1) ELSE s

\* strings.Replace(s, t, "", 1): the first t, wherever it is, is removed.
RECURSIVE IndexOf(_, _, _)
IndexOf(s, t, i) ==
  IF i > Len(s) THEN 0 ELSE IF s[i] = t THEN i ELSE IndexOf(s, t, i + 1)
ReplaceFirst(s, t) ==
  LET k == IndexOf(s, t, 1)
  IN IF k = 0 THEN s ELSE SubSeq(s, 1, k - 1) \o SubSeq(s, k + 1, Len(s))

\* strings.HasSuffix(filePath, ".gz")
HasGzSuffix(p) == p # <<>> /\ p[Len(p)] = ".gz"

\* The mapping file's path in writeMappingsToFile and in readMappingsFromFile.
WriteMappingPath(file) ==
  TrimSuffix(TrimSuffix(file, ".gz"), ".json") \o <<"-mapping.json">>
ReadMappingPath(file) ==
  ReplaceFirst(ReplaceFirst(file, ".gz"), ".json") \o <<"-mapping.json">>

\* ------------------------------------------------------------- the endpoint
\* An index of the endpoint: its field mappings and its documents, in the
\* order a scroll returns them.
NoIndex == [exists |-> FALSE, mappings |-> EmptyObj, docs |-> <<>>]
Doc(d, s) == [id |-> d, source |-> s]

\* The documents of index i as SearchHits, in scroll order.
HitsOf(idx, i) == [k \in 1..Len(idx.docs) |-> Hit(i, idx.docs[k].id, idx.docs[k].source)]

\* The value of the time field in a document's source: the documents of
\* AllHits hold the times 1, 2, 3, ... in their order.
TimeOf(s) == CHOOSE k \in 1..Len(AllHits) : AllHits[k].source = s

\* No --time-field, and the time ranges an export is given.
NoFilter == [field |-> "", start |-> 0, end |-> 0]
Filters ==
  {NoFilter, [field |-> "ts", start |-> 1, end |-> 2],
   [field |-> "ts", start |-> 0, end |-> 1]}

\* elastic.NewRangeQuery(field).Gt(start).Lte(end)
GteStart(start, v) == start <= v
GtStart(start, v) == start < v
LteEnd(v, end) == v <= end
RangeQuery(f, s) == GtStart(f.start, TimeOf(s)) /\ LteEnd(TimeOf(s), f.end)

\* What a count or a scroll of the index sees: every document, or with a
\* time field the documents the range query selects.
Selected(f, s) == f.field = "" \/ RangeQuery(f, s)
RECURSIVE Select(_, _)
Select(f, hs) ==
  IF hs = <<>> THEN <<>>
  ELSE (IF Selected(f, Head(hs).source) THEN <<Head(hs)>> ELSE <<>>)
         \o Select(f, Tail(hs))

\* GetMapping().Index(i): the mappings, keyed by the index name.
GetMapping(idx, i) == Wrap(i, Wrap("mappings", idx.mappings))

\* CreateIndex(i).BodyJson(body) is refused for a body with a top-level key
\* that is no section of an index definition.
CreateSections == {"mappings", "settings", "aliases"}
CreateAccepted(body) == Keys(body) \subseteq CreateSections
Created(body) ==
  [exists |-> TRUE,
   mappings |-> IF Member(body, "mappings") = {} THEN EmptyObj ELSE Member(body, "mappings"),
   docs |-> <<>>]

\* One index request of a bulk call: an upsert keyed by the id.  A request
\* without an id makes a new document under an id the endpoint generates
\* ("auto" stands for each of them).  The endpoint keeps, and scrolls, its
\* documents in the order of IdOrder.
IdOrder == <<"a", "b", "c", "d", "e", "auto">>
Rank(d) == CHOOSE k \in 1..Len(IdOrder) : IdOrder[k] = d
RECURSIVE PosOf(_, _, _)
PosOf(docs, d, k) ==
  IF k > Len(docs) THEN 0 ELSE IF docs[k].id = d THEN k ELSE PosOf(docs, d, k + 1)
RECURSIVE Insert(_, _)
Insert(docs, doc) ==
  IF docs = <<>> THEN <<doc>>
  ELSE IF Rank(doc.id) < Rank(Head(docs).id) THEN <<doc>> \o docs
  ELSE <<Head(docs)>> \o Insert(Tail(docs), doc)
Upsert(docs, d, s) ==
  IF d = "" THEN Insert(docs, Doc("auto", s))
  ELSE LET k == PosOf(docs, d, 1)
       IN IF k = 0 THEN Insert(docs, Doc(d, s)) ELSE [docs EXCEPT ![k] = Doc(d, s)]

\* A bulk call: its requests in order; a request that names no index is
\* refused, an index that does not exist is made on the first write.
BulkRequest(i, d, s) == [index |-> i, id |-> d, source |-> s]
RECURSIVE BulkApply(_, _)
BulkApply(e, reqs) ==
  IF reqs = <<>> THEN e
  ELSE LET r == Head(reqs)
           e2 == IF r.index \notin IndexNames THEN e
                 ELSE [e EXCEPT ![r.index] =
                         [exists |-> TRUE, mappings |-> @.mappings,
                          docs |-> Upsert(@.docs, r.id, r.source)]]
       IN BulkApply(e2, Tail(reqs))

\* ------------------------------------------------------------------- state
VARIABLES
  path,      \* the data file's path (--dest-file, --source-file)
  es,        \* the endpoint: index name -> index
  dataFile,  \* the data file: [exists, bytes]
  mapFiles,  \* the mapping files: path -> [exists, json]
  run,       \* invocations of the program so far
  cmd,       \* the command of this invocation: "export" | "import" | "none"
  mainpc,    \* where main's goroutine is
  failedAt,  \* the phase in which the invocation failed ("" if it did not)
  reported,  \* the error the process exits with (Nil if none)
  g,         \* the errgroup: [err] the first error a task returned
  ctx,       \* the errgroup's context: [done]
  hits,      \* the channel: [closed, buf, closes]
  rd,        \* the source reader's goroutine
  wr,        \* the sink writer's goroutine
  bulk,      \* the bulk processor: [open, buf] requests added, not yet sent
  bar,       \* the progress bar: [total, n]
  mappings,  \* doExport's and doImport's local variable `mappings`
  hist,      \* history of this invocation, for the properties
  last,      \* how the invocation before this one ended, and the endpoint then
  pt,        \* the mapping-file paths derived from a data-file path, on their own
  filter,    \* --time-field, --time-start, --time-end: [field, start, end]
  rq         \* the index request made from a line, on its own

world == <<path, filter, es, dataFile, mapFiles>>
group == <<g, ctx>>
tasks == <<hits, rd, wr, bulk, bar>>
vars == <<path, es, dataFile, mapFiles, run, cmd, mainpc, failedAt, reported,
          g, ctx, hits, rd, wr, bulk, bar, mappings, hist, last, pt, filter, rq>>

\* hits := make(chan interface{}): no buffer.
ChanCapBuffered == PageSize
ChanCap == 0

SrcIndex == "events"
DstIndex == "events2"

MapPaths(p) == {WriteMappingPath(p), ReadMappingPath(p)}
NoFile == [exists |-> FALSE, bytes |-> <<>>]
NoMapFile == [exists |-> FALSE, json |-> EmptyObj]

\* The state of a process that has not started its tasks.
RdOff == [pc |-> "off", err |-> Nil, input |-> <<>>, page |-> <<>>,
          trunc |-> FALSE, inOpen |-> FALSE, gzOpen |-> FALSE]
WrOff == [pc |-> "off", err |-> Nil, item |-> <<>>, buf |-> <<>>,
          failed |-> FALSE, outOpen |-> FALSE, gzOpen |-> FALSE, gzHeader |-> FALSE]
HistOff == [src |-> <<>>, taken |-> 0, received |-> <<>>, firstErr |-> Nil,
            writeFailedAt |-> 0, createBody |-> {}, created |-> FALSE,
            consumed |-> <<>>]

\* ---------------------------------------------------------- initial states
JobPaths == {<<"out", ".json">>, <<"out", ".json", ".gz">>}

\* The lines an initial data file is made of: two marshalled hits and a
\* line that is no hit.
LineKinds ==
  { Marshal(AllHits[1]) \o <<NL>>, Marshal(AllHits[2]) \o <<NL>>,
    <<"garbage", NL>> }
\* A last line without its newline.
OpenLine == Marshal(AllHits[3])

LineSeqs == UNION {[1..k -> LineKinds] : k \in 0..MaxLines}
InitialData ==
  {Flatten(ls) : ls \in LineSeqs}
    \cup {Flatten(ls) \o OpenLine : ls \in {l \in LineSeqs : Len(l) < Min(MaxLines, 2)}}
\* On disk: as it is, or gzipped, whole or cut before the trailer.
InitialBytes(p) ==
  IF HasGzSuffix(p)
  THEN {GzipClose(d) : d \in InitialData}
         \cup {<<GZH>> \o d : d \in InitialData}
  ELSE InitialData

LastOff == [cmd |-> "none", mainpc |-> "idle", failedAt |-> "", consumed |-> <<>>,
            writeFailedAt |-> 0, es |-> [i \in IndexNames |-> NoIndex],
            mapFiles |-> <<>>]
PtOff == [file |-> <<>>, w |-> <<>>, r |-> <<>>, step |-> "off"]
RqOff == [dst |-> "", hit |-> ZeroHit, line |-> <<>>, req |-> BulkRequest("", "", <<>>),
          step |-> "off"]

RunOff ==
  /\ run = 0 /\ cmd = "none" /\ mainpc = "idle" /\ failedAt = "" /\ reported = Nil
  /\ g = [err |-> Nil] /\ ctx = [done |-> FALSE]
  /\ hits = [closed |-> FALSE, buf |-> <<>>, closes |-> 0]
  /\ rd = RdOff /\ wr = WrOff
  /\ bulk = [open |-> FALSE, buf |-> <<>>]
  /\ bar = [total |-> 0, n |-> 0]
  /\ mappings = EmptyObj
  /\ hist = HistOff
  /\ last = LastOff

\* An endpoint with the index to export, or without it, and no data file
\* yet.
InitExport ==
  /\ filter \in Filters
  /\ \/ \E n \in 0..MaxDocs :
          es = [i \in IndexNames |->
                  IF i = SrcIndex
                  THEN [exists |-> TRUE, mappings |-> FieldMappings,
                        docs |-> [k \in 1..n |-> Doc(AllHits[k].id, AllHits[k].source)]]
                  ELSE NoIndex]
     \/ es = [i \in IndexNames |-> NoIndex]
  /\ dataFile = NoFile
  /\ mapFiles = [f \in MapPaths(path) |-> NoMapFile]

\* A data file with its mapping file, and an endpoint without indices: any
\* data file beside a well-formed mapping file, one data file beside any
\* mapping file or none.
InitImport ==
  /\ filter = NoFilter
  /\ es = [i \in IndexNames |-> NoIndex]
  /\ \/ /\ \E b \in InitialBytes(path) : dataFile = [exists |-> TRUE, bytes |-> b]
        /\ mapFiles = [f \in MapPaths(path) |-> [exists |-> TRUE, json |-> GoodMapping]]
     \/ /\ \E b \in InitialBytes(path) :
             /\ b \in {Marshal(AllHits[1]) \o <<NL>>, GzipClose(Marshal(AllHits[1]) \o <<NL>>)}
             /\ dataFile = [exists |-> TRUE, bytes |-> b]
        /\ \/ \E m \in MappingFiles :
                mapFiles = [f \in MapPaths(path) |-> [exists |-> TRUE, json |-> m]]
           \/ mapFiles = [f \in MapPaths(path) |-> NoMapFile]

Init ==
  /\ path \in JobPaths
  /\ RunOff
  /\ pt = PtOff
  /\ rq = RqOff
  /\ (InitExport \/ InitImport)

\* ------------------------------------------------------ main's goroutine
\* The steps of doExport and of doImport, in the order of their statements:
\* doExport starts the reader's task before it fetches and writes the
\* mappings, and the sink's task after; doImport starts both tasks after the
\* index was made.
ExportPhasesSinkFirst ==
  <<"parse", "connect", "startReader", "startWriter", "readMappings",
    "writeMappings", "wait", "done">>
ExportPhases ==
  <<"parse", "connect", "startReader", "readMappings", "writeMappings",
    "startWriter", "wait", "done">>
ImportPhases ==
  <<"parse", "connect", "readMappings", "applyMappings", "startReader",
    "startWriter", "wait", "done">>
PhaseAfter(c, p) ==
  LET ph == IF c = "export" THEN ExportPhases ELSE ImportPhases
      k == CHOOSE j \in 1..Len(ph) : ph[j] = p
  IN ph[k + 1]

\* A goroutine of a process that exits is gone where it stood.
Killed(t) == IF t.pc \in {"off", "done"} THEN t ELSE [t EXCEPT !.pc = "killed"]

\* `return err` from doExport or doImport before a task was started
\* (kingpin.FatalIfError), and a failing flag parse.
Fail(phase, err) ==
  /\ mainpc' = "failed" /\ failedAt' = phase /\ reported' = err

\* logger.Fatal(err): the process exits, whatever its tasks are doing.
Fatal(phase, err) ==
  /\ Fail(phase, err)
  /\ rd' = Killed(rd) /\ wr' = Killed(wr)

\* The program is started: kingpin parses the flags and opens the file flag
\* (export: --dest-file with O_CREATE|O_EXCL; import: --source-file, which
\* must exist); then doExport or doImport makes the channel and the group.
Invoke(c) ==
  /\ mainpc \in {"idle", "done", "failed"}
  /\ run < MaxRuns
  /\ run' = run + 1
  /\ cmd' = c
  /\ g' = [err |-> Nil] /\ ctx' = [done |-> FALSE]
  /\ hits' = [closed |-> FALSE, buf |-> <<>>, closes |-> 0]
  /\ rd' = RdOff /\ wr' = WrOff
  /\ bulk' = [open |-> FALSE, buf |-> <<>>]
  /\ bar' = [total |-> 0, n |-> 0]
  /\ mappings' = EmptyObj
  /\ hist' = HistOff
  /\ IF c = "export"
     THEN IF dataFile.exists
          THEN Fail("parse", ErrUsage) /\ UNCHANGED dataFile
          ELSE /\ dataFile' = [exists |-> TRUE, bytes |-> <<>>]
               /\ mainpc' = PhaseAfter(c, "parse") /\ failedAt' = "" /\ reported' = Nil
     ELSE IF ~dataFile.exists
          THEN Fail("parse", ErrUsage) /\ UNCHANGED dataFile
          ELSE /\ mainpc' = PhaseAfter(c, "parse") /\ failedAt' = "" /\ reported' = Nil
               /\ UNCHANGED dataFile
  /\ last' = [cmd |-> cmd, mainpc |-> mainpc, failedAt |-> failedAt,
               consumed |-> hist.consumed, writeFailedAt |-> hist.writeFailedAt,
               es |-> es, mapFiles |-> mapFiles]
  /\ UNCHANGED <<path, filter, es, mapFiles, pt, rq>>

InvokeExport == Invoke("export")
InvokeImport == Invoke("import")

\* connectElasticSource goes on when the index exists.
SourceAnyIndex(exists) == TRUE
SourceIsThere(exists) == exists

\* connectElasticSource: the index must exist; its documents are counted
\* for the progress bar.  Any of the calls may fail.
connectElasticSource ==
  /\ cmd = "export" /\ mainpc = "connect"
  /\ \/ Fail("connect", ErrRemote) /\ UNCHANGED bar
     \/ /\ ~SourceIsThere(es[SrcIndex].exists)
        /\ Fail("connect", ErrNotFound) /\ UNCHANGED bar
     \/ /\ SourceIsThere(es[SrcIndex].exists)
        /\ bar' = [total |-> Len(Select(filter, HitsOf(es[SrcIndex], SrcIndex))), n |-> 0]
        /\ mainpc' = PhaseAfter(cmd, "connect") /\ UNCHANGED <<failedAt, reported>>
  /\ UNCHANGED <<world, run, cmd, group, hits, rd, wr, bulk, mappings, hist, last, pt, rq>>

\* readDataFromElastic: the reader's goroutine is started (g.Go); the scroll
\* will return the index's documents, PageSize at a time.
readDataFromElastic ==
  /\ cmd = "export" /\ mainpc = "startReader"
  /\ rd' = [RdOff EXCEPT !.pc = "fetch",
                         !.input = Select(filter, HitsOf(es[SrcIndex], SrcIndex))]
  /\ hist' = [hist EXCEPT !.src = Select(filter, HitsOf(es[SrcIndex], SrcIndex))]
  /\ mainpc' = PhaseAfter(cmd, "startReader")
  /\ UNCHANGED <<world, run, cmd, failedAt, reported, group, hits, wr, bulk, bar,
                 mappings, last, pt, rq>>

\* readMappingsFromElastic, and logger.Fatal on its error.
readMappingsFromElastic ==
  /\ cmd = "export" /\ mainpc = "readMappings"
  /\ \/ Fatal("schema", ErrRemote) /\ UNCHANGED mappings
     \/ /\ mappings' = GetMapping(es[SrcIndex], SrcIndex)
        /\ mainpc' = PhaseAfter(cmd, "readMappings")
        /\ UNCHANGED <<failedAt, reported, rd, wr>>
  /\ UNCHANGED <<world, run, cmd, group, hits, bulk, bar, hist, last, pt, rq>>

\* writeMappingsToFile, and logger.Fatal on its error.
writeMappingsToFile ==
  /\ cmd = "export" /\ mainpc = "writeMappings"
  /\ \/ Fatal("schema", ErrIO) /\ UNCHANGED mapFiles
     \/ /\ mapFiles' = [mapFiles EXCEPT ![WriteMappingPath(path)] =
                          [exists |-> TRUE, json |-> mappings]]
        /\ mainpc' = PhaseAfter(cmd, "writeMappings")
        /\ UNCHANGED <<failedAt, reported, rd, wr>>
  /\ UNCHANGED <<path, filter, es, dataFile, run, cmd, group, hits, bulk, bar, mappings,
                 hist, last, pt, rq>>

\* writeDataToFile: os.Create truncates the data file; the sink's goroutine
\* is started and wraps the file in its writers.
writeDataToFile ==
  /\ cmd = "export" /\ mainpc = "startWriter"
  /\ \/ Fatal("start", ErrIO) /\ UNCHANGED dataFile
     \/ /\ dataFile' = [exists |-> TRUE, bytes |-> <<>>]
        /\ wr' = [WrOff EXCEPT !.pc = "recv", !.outOpen = TRUE,
                               !.gzOpen = HasGzSuffix(path)]
        /\ mainpc' = PhaseAfter(cmd, "startWriter")
        /\ UNCHANGED <<failedAt, reported, rd>>
  /\ UNCHANGED <<path, filter, es, mapFiles, run, cmd, group, hits, bulk, bar, mappings,
                 hist, last, pt, rq>>

\* connectElasticDest goes on when the index does not exist yet.
DestAnyIndex(exists) == TRUE
DestIsNew(exists) == ~exists

\* connectElasticDest: the index must not exist.  Then doImport sizes the
\* progress bar by the file's size.
connectElasticDest ==
  /\ cmd = "import" /\ mainpc = "connect"
  /\ \/ Fail("connect", ErrRemote) /\ UNCHANGED bar
     \/ /\ ~DestIsNew(es[DstIndex].exists)
        /\ Fail("connect", ErrExists) /\ UNCHANGED bar
     \/ /\ DestIsNew(es[DstIndex].exists)
        /\ bar' = [total |-> Len(dataFile.bytes), n |-> 0]
        /\ mainpc' = PhaseAfter(cmd, "connect") /\ UNCHANGED <<failedAt, reported>>
  /\ UNCHANGED <<world, run, cmd, group, hits, rd, wr, bulk, mappings, hist, last, pt, rq>>

\* readMappingsFromFile, and logger.Fatal on its error.
readMappingsFromFile ==
  /\ cmd = "import" /\ mainpc = "readMappings"
  /\ LET f == ReadMappingPath(path)
     IN \/ /\ ~mapFiles[f].exists
           /\ Fatal("schema", ErrSchemaMissing) /\ UNCHANGED mappings
        \/ /\ mapFiles[f].exists
           /\ Fatal("schema", ErrIO) /\ UNCHANGED mappings
        \/ /\ mapFiles[f].exists
           /\ mappings' = mapFiles[f].json
           /\ mainpc' = PhaseAfter(cmd, "readMappings")
           /\ UNCHANGED <<failedAt, reported, rd, wr>>
  /\ UNCHANGED <<world, run, cmd, group, hits, bulk, bar, hist, last, pt, rq>>

\* The body of the create request, from the value tm under the mapping
\* file's top-level key: a new map with the one key "mappings", filled with
\* the members of tm["mappings"].
CreateBodyAll(tm) == tm
CreateBody(tm) == Wrap("mappings", Member(tm, "mappings"))

\* The type assertions of writeMappingsAsStringToElastic panic on a file
\* without a top-level key, on a top-level value that is no object, and on
\* a "mappings" member that is missing or no object.
UnwrapPanics(m, k) ==
  \/ ~IsObject(Member(m, k))
  \/ ~IsObject(Member(Member(m, k), "mappings"))

\* writeMappingsAsStringToElastic, and logger.Fatal on its error.  The
\* range over the parsed map stops at the first key, whichever that is.
writeMappingsAsStringToElastic ==
  /\ cmd = "import" /\ mainpc = "applyMappings"
  /\ IF es[DstIndex].exists
     THEN Fatal("schema", ErrExists) /\ UNCHANGED <<es, hist>>
     ELSE IF ~IsObject(mappings)
     THEN Fatal("schema", ErrParse) /\ UNCHANGED <<es, hist>>
     ELSE IF Keys(mappings) = {}
     THEN Fatal("schema", ErrPanic) /\ UNCHANGED <<es, hist>>
     ELSE \E k \in Keys(mappings) :
            IF UnwrapPanics(mappings, k)
            THEN Fatal("schema", ErrPanic) /\ UNCHANGED <<es, hist>>
            ELSE LET body == CreateBody(Member(mappings, k))
                 IN \/ Fatal("schema", ErrRemote) /\ UNCHANGED <<es, hist>>
                    \/ /\ ~CreateAccepted(body)
                       /\ Fatal("schema", ErrRemote)
                       /\ hist' = [hist EXCEPT !.createBody = body]
                       /\ UNCHANGED es
                    \/ /\ CreateAccepted(body)
                       /\ es' = [es EXCEPT ![DstIndex] = Created(body)]
                       /\ hist' = [hist EXCEPT !.createBody = body, !.created = TRUE]
                       /\ mainpc' = PhaseAfter(cmd, "applyMappings")
                       /\ UNCHANGED <<failedAt, reported, rd, wr>>
  /\ UNCHANGED <<path, filter, dataFile, mapFiles, run, cmd, group, hits, bulk, bar,
                 mappings, last, pt, rq>>

\* The lines ReadBytes will return from these bytes, one after the other.
RECURSIVE LinesOf(_)
LinesOf(bytes) ==
  LET rb == ReadBytes(bytes)
  IN IF rb.eof THEN <<>> ELSE <<rb.line>> \o LinesOf(rb.rest)

\* readDataFromFile: the file is opened, through gzip.NewReader for a path
\* that ends in ".gz"; the reader's goroutine is started.
readDataFromFile ==
  /\ cmd = "import" /\ mainpc = "startReader"
  /\ LET gz == HasGzSuffix(path)
         data == IF gz THEN GzData(dataFile.bytes) ELSE dataFile.bytes
     IN \/ Fatal("start", ErrIO) /\ UNCHANGED hist
        \/ /\ gz /\ ~GzOpenOK(dataFile.bytes)
           /\ Fatal("start", ErrIO) /\ UNCHANGED hist
        \/ /\ gz => GzOpenOK(dataFile.bytes)
           /\ rd' = [RdOff EXCEPT !.pc = "read", !.input = data,
                                  !.trunc = (gz /\ ~GzComplete(dataFile.bytes)),
                                  !.inOpen = TRUE, !.gzOpen = gz]
           /\ hist' = [hist EXCEPT !.src = LinesOf(data)]
           /\ mainpc' = PhaseAfter(cmd, "startReader")
           /\ UNCHANGED <<failedAt, reported, wr>>
  /\ UNCHANGED <<world, run, cmd, group, hits, bulk, bar, mappings, last, pt, rq>>

\* writeDataToElastic: the bulk processor is started, then the sink's
\* goroutine.
writeDataToElastic ==
  /\ cmd = "import" /\ mainpc = "startWriter"
  /\ \/ Fatal("start", ErrRemote) /\ UNCHANGED bulk
     \/ /\ bulk' = [open |-> TRUE, buf |-> <<>>]
        /\ wr' = [WrOff EXCEPT !.pc = "recv"]
        /\ mainpc' = PhaseAfter(cmd, "startWriter")
        /\ UNCHANGED <<failedAt, reported, rd>>
  /\ UNCHANGED <<world, run, cmd, group, hits, bar, mappings, hist, last, pt, rq>>

\* g.Wait(): once both tasks are done the context is cancelled and the
\* group's error, if any, goes to logger.Fatal.
Wait ==
  /\ mainpc = "wait"
  /\ rd.pc = "done" /\ wr.pc = "done"
  /\ ctx' = [done |-> TRUE]
  /\ IF g.err # Nil
     THEN Fail("join", g.err)
     ELSE mainpc' = PhaseAfter(cmd, "wait") /\ UNCHANGED <<failedAt, reported>>
  /\ UNCHANGED <<world, run, cmd, g, tasks, mappings, hist, last, pt, rq>>

\* ------------------------------------------------------------ the channel
\* close(hits)
LeftOpen(ch) == ch
CloseAndDeferredClose(ch) == [ch EXCEPT !.closed = TRUE, !.closes = @ + 2]
Close(ch) == [ch EXCEPT !.closed = TRUE, !.closes = @ + 1]

\* A send goes through when the receiver waits on the empty channel (the
\* value is handed over) or the buffer has room.
ReceiverWaits == wr.pc = "recv" /\ hits.buf = <<>>
CanSend == ReceiverWaits \/ Len(hits.buf) < ChanCap

\* The effect of sending v on wr and hits, the history of the receipt
\* included.
SendEffect(v) ==
  IF ReceiverWaits
  THEN /\ wr' = [wr EXCEPT !.pc = "proc", !.item = <<v>>]
       /\ hits' = hits
  ELSE /\ hits' = [hits EXCEPT !.buf = Append(@, v)]
       /\ wr' = wr

\* ----------------------------------------------------------- the errgroup
\* The group keeps the first error a task returns (errOnce) and cancels
\* the context on it.
RecordLast(gerr, err) == IF err # Nil THEN err ELSE gerr
RecordError(gerr, err) == IF gerr = Nil THEN err ELSE gerr

\* A task's function has returned: g.Go's wrapper records its error.
TaskDone(t) ==
  /\ t.pc = "ret"
  /\ g' = [err |-> RecordError(g.err, t.err)]
  /\ ctx' = [done |-> ctx.done \/ t.err # Nil]

ReaderDone ==
  /\ TaskDone(rd)
  /\ rd' = [rd EXCEPT !.pc = "done"]
  /\ UNCHANGED <<world, run, cmd, mainpc, failedAt, reported, hits, wr, bulk, bar,
                 mappings, hist, last, pt, rq>>

SinkDone ==
  /\ TaskDone(wr)
  /\ wr' = [wr EXCEPT !.pc = "done"]
  /\ UNCHANGED <<world, run, cmd, mainpc, failedAt, reported, hits, rd, bulk, bar,
                 mappings, hist, last, pt, rq>>

\* The first error a task's function returned, in the order of the returns.
NoteReturn(h, err) ==
  IF h.firstErr = Nil THEN [h EXCEPT !.firstErr = err] ELSE h

\* ------------------------------------------------- readDataFromElastic's task
\* The hits the range statement visits, in the order it visits them.
PageReversed(p) == [k \in 1..Len(p) |-> p[Len(p) + 1 - k]]
PageOrder(p) == p

\* The jobs that read from an endpoint: an export (elastic to file) and
\* the elastic-to-elastic job the flag-based main accepts.
RemoteSourceCmds == {"export", "esToEs"}

\* What the task returns for the error of scroll.Do: nil for io.EOF, the
\* error itself otherwise.
ScrollReturnRaw(err) == err
ScrollReturn(err) == IF err = ErrEOF THEN Nil ELSE err

\* scroll.Do: the next page, io.EOF after the last one (return nil), or an
\* error (return err).  The deferred close(hits) runs on every return.
ReaderScroll ==
  /\ cmd \in RemoteSourceCmds /\ rd.pc = "fetch"
  /\ \/ /\ rd.input = <<>>
        /\ rd' = [rd EXCEPT !.pc = "ret", !.err = ScrollReturn(ErrEOF)]
        /\ hits' = Close(hits)
        /\ UNCHANGED hist
     \/ /\ rd' = [rd EXCEPT !.pc = "ret", !.err = ScrollReturn(ErrRemote)]
        /\ hits' = Close(hits)
        /\ hist' = NoteReturn(hist, ErrRemote)
     \/ /\ rd.input # <<>>
        /\ LET n == Min(PageSize, Len(rd.input))
           IN rd' = [rd EXCEPT !.pc = "send",
                               !.page = PageOrder(SubSeq(rd.input, 1, n)),
                               !.input = SubSeq(rd.input, n + 1, Len(rd.input))]
        /\ hist' = [hist EXCEPT !.taken = @ + 1]
        /\ UNCHANGED hits
  /\ UNCHANGED <<world, run, cmd, mainpc, failedAt, reported, group, wr, bulk, bar,
                 mappings, last, pt, rq>>

\* select { case hits <- *hit: ; case <-ctx.Done(): return ctx.Err() }
ReaderSendHit ==
  /\ cmd \in RemoteSourceCmds /\ rd.pc = "send"
  /\ \/ /\ CanSend
        /\ SendEffect(Head(rd.page))
        /\ rd' = [rd EXCEPT !.page = Tail(@),
                            !.pc = IF Len(rd.page) > 1 THEN "send" ELSE "fetch"]
        /\ hist' = [hist EXCEPT
                      !.taken = IF Len(rd.page) > 1 THEN @ + 1 ELSE @,
                      !.received = IF ReceiverWaits THEN Append(@, Head(rd.page)) ELSE @]
     \/ /\ ctx.done
        /\ rd' = [rd EXCEPT !.pc = "ret", !.err = ErrCanceled]
        /\ hits' = Close(hits)
        /\ hist' = NoteReturn(hist, ErrCanceled)
        /\ wr' = wr
  /\ UNCHANGED <<world, run, cmd, mainpc, failedAt, reported, group, bulk, bar,
                 mappings, last, pt, rq>>

\* ---------------------------------------------------- readDataFromFile's task
\* r.ReadBytes('\n'): a line; io.EOF, on which the files and the channel
\* are closed (return nil); or another error (return err, nothing closed).
\* Bytes after the last newline come with io.EOF and are dropped.
ReaderReadLine ==
  /\ cmd = "import" /\ rd.pc = "read"
  /\ LET rb == ReadBytes(rd.input)
     IN \/ /\ rd' = [rd EXCEPT !.pc = "ret", !.err = ErrIO]
           /\ hist' = NoteReturn(hist, ErrIO)
           /\ UNCHANGED hits
        \/ /\ rb.eof /\ rd.trunc
           /\ rd' = [rd EXCEPT !.pc = "ret", !.err = ErrIO, !.input = <<>>]
           /\ hist' = NoteReturn(hist, ErrIO)
           /\ UNCHANGED hits
        \/ /\ rb.eof /\ ~rd.trunc
           /\ rd' = [rd EXCEPT !.pc = "ret", !.err = Nil, !.input = <<>>,
                               !.inOpen = FALSE, !.gzOpen = FALSE]
           /\ hits' = Close(hits)
           /\ UNCHANGED hist
        \/ /\ ~rb.eof
           /\ rd' = [rd EXCEPT !.pc = "send", !.page = <<rb.line>>, !.input = rb.rest]
           /\ hist' = [hist EXCEPT !.taken = @ + 1]
           /\ UNCHANGED hits
  /\ UNCHANGED <<world, run, cmd, mainpc, failedAt, reported, group, wr, bulk, bar,
                 mappings, last, pt, rq>>

\* hits <- line
ReaderSendLine ==
  /\ cmd = "import" /\ rd.pc = "send"
  /\ CanSend
  /\ SendEffect(Head(rd.page))
  /\ rd' = [rd EXCEPT !.page = <<>>, !.pc = "read"]
  /\ hist' = [hist EXCEPT
                !.received = IF ReceiverWaits THEN Append(@, Head(rd.page)) ELSE @]
  /\ UNCHANGED <<world, run, cmd, mainpc, failedAt, reported, group, bulk, bar,
                 mappings, last, pt, rq>>

\* ------------------------------------------------------------ the sink tasks
\* `for h := range hits`: the next value, or the end of the loop once the
\* channel is closed and empty.
SinkRecv ==
  /\ wr.pc = "recv"
  /\ IF hits.buf # <<>>
     THEN /\ wr' = [wr EXCEPT !.pc = "proc", !.item = <<Head(hits.buf)>>]
          /\ hits' = [hits EXCEPT !.buf = Tail(@)]
          /\ hist' = [hist EXCEPT !.received = Append(@, Head(hits.buf))]
     ELSE /\ hits.closed
          /\ wr' = [wr EXCEPT !.pc = "finish"]
          /\ UNCHANGED <<hits, hist>>
  /\ UNCHANGED <<world, run, cmd, mainpc, failedAt, reported, group, rd, bulk, bar,
                 mappings, last, pt, rq>>

\* json.Marshal fails on a hit whose source is no JSON; b is then empty.
MarshalFails(h) == \E k \in 1..Len(h.source) : h.source[k] = "BAD"
LineFor(h) == (IF MarshalFails(h) THEN <<>> ELSE Marshal(h)) \o <<NL>>

\* What a flush of the bufio.Writer adds to the file: for a ".gz" path the
\* gzip header goes before the first data.
Flushed(w, data) == (IF w.gzOpen /\ ~w.gzHeader THEN <<GZH>> ELSE <<>>) \o data

\* `select { default: ; case <-ctx.Done(): return ctx.Err() }` at the end of
\* the loop body.
AfterRecordChecked(w) ==
  IF w.failed THEN [w EXCEPT !.pc = "ret", !.err = ErrIO, !.item = <<>>]
  ELSE IF ctx.done THEN [w EXCEPT !.pc = "ret", !.err = ErrCanceled, !.item = <<>>]
  ELSE [w EXCEPT !.pc = "recv", !.item = <<>>]
AfterRecord(w) ==
  IF ctx.done THEN [w EXCEPT !.pc = "ret", !.err = ErrCanceled, !.item = <<>>]
  ELSE [w EXCEPT !.pc = "recv", !.item = <<>>]

\* writeDataToFile's loop body: marshal, w.Write(b), w.Write("\n"),
\* bar.Add64(1), the cancellation check.  The results of the writes are not
\* looked at.  The bufio.Writer passes its buffer on when it is full (here:
\* after any record, or not), and once a write to the file has failed it
\* keeps the error and drops what it is given.
SinkWriteHit ==
  /\ cmd = "export" /\ wr.pc = "proc"
  /\ LET h == wr.item[1]
         buffered == wr.buf \o LineFor(h)
         k == Len(hist.consumed) + 1
     IN /\ IF wr.failed
           THEN /\ wr' = AfterRecord(wr)
                /\ hist' = NoteReturn([hist EXCEPT !.consumed = Append(@, h)],
                                      IF ctx.done THEN ErrCanceled ELSE Nil)
                /\ UNCHANGED dataFile
           ELSE \/ /\ wr' = AfterRecord([wr EXCEPT !.buf = buffered])
                   /\ hist' = NoteReturn([hist EXCEPT !.consumed = Append(@, h)],
                                         IF ctx.done THEN ErrCanceled ELSE Nil)
                   /\ UNCHANGED dataFile
                \/ /\ wr' = AfterRecord([wr EXCEPT !.buf = <<>>,
                                                   !.gzHeader = wr.gzOpen])
                   /\ dataFile' = [dataFile EXCEPT
                                     !.bytes = @ \o Flushed(wr, buffered)]
                   /\ hist' = NoteReturn([hist EXCEPT !.consumed = Append(@, h)],
                                         IF ctx.done THEN ErrCanceled ELSE Nil)
                \/ /\ wr' = AfterRecord([wr EXCEPT !.buf = buffered, !.failed = TRUE])
                   /\ hist' = NoteReturn([hist EXCEPT !.consumed = Append(@, h),
                                                      !.writeFailedAt = k],
                                         IF ctx.done THEN ErrCanceled ELSE Nil)
                   /\ UNCHANGED dataFile
        /\ bar' = [bar EXCEPT !.n = @ + 1]
  /\ UNCHANGED <<path, filter, es, mapFiles, run, cmd, mainpc, failedAt, reported, group,
                 hits, rd, bulk, mappings, last, pt, rq>>

\* After the loop: w.Flush(), gzw.Close() for a ".gz" path, out.Close(),
\* return nil.  The results are not looked at.
SinkCloseFile ==
  /\ cmd = "export" /\ wr.pc = "finish"
  /\ \/ /\ ~wr.failed
        /\ dataFile' = [dataFile EXCEPT
                          !.bytes = @ \o Flushed(wr, wr.buf)
                                      \o (IF wr.gzOpen THEN <<GZT>> ELSE <<>>)]
        /\ wr' = [wr EXCEPT !.pc = "ret", !.err = Nil, !.buf = <<>>,
                            !.outOpen = FALSE, !.gzOpen = FALSE]
        /\ UNCHANGED hist
     \/ /\ wr.failed \/ wr.buf # <<>>
        /\ wr' = [wr EXCEPT !.pc = "ret", !.err = Nil, !.failed = TRUE,
                            !.outOpen = FALSE, !.gzOpen = FALSE]
        /\ hist' = [hist EXCEPT !.writeFailedAt =
                      IF @ = 0 THEN Len(hist.consumed) ELSE @]
        /\ UNCHANGED dataFile
  /\ UNCHANGED <<path, filter, es, mapFiles, run, cmd, mainpc, failedAt, reported, group,
                 hits, rd, bulk, bar, mappings, last, pt, rq>>

\* The index a record is written to: --dest-index, or the record's own.
TargetOwnIndex(dst, res) == res.index
TargetIndex(dst, res) == IF dst = "" THEN res.index ELSE dst

\* elastic.NewBulkIndexRequest().Index(i).Id(res.Id).Doc(res.Source)
IndexRequestNoId(dst, res) == BulkRequest(TargetIndex(dst, res), "", res.source)
IndexRequest(dst, res) == BulkRequest(TargetIndex(dst, res), res.id, res.source)

\* What a record adds to the progress bar of an import: int64(len(hit)).
LineBytesNoNL(line) == Len(line) - 1
LineBytes(line) == Len(line)

\* writeDataToElastic's loop body: unmarshal (an error is logged), build
\* the index request, bulk.Add, bar.Add64(len(hit)), the cancellation check.
SinkAddHit ==
  /\ cmd = "import" /\ wr.pc = "proc"
  /\ LET line == wr.item[1]
         res == Unmarshal(line).hit
     IN /\ bulk' = [bulk EXCEPT !.buf =
                      Append(@, IndexRequest(DstIndex, res))]
        /\ bar' = [bar EXCEPT !.n = @ + LineBytes(line)]
        /\ hist' = NoteReturn([hist EXCEPT !.consumed = Append(@, line)],
                              IF ctx.done THEN ErrCanceled ELSE Nil)
  /\ wr' = AfterRecord(wr)
  /\ UNCHANGED <<world, run, cmd, mainpc, failedAt, reported, group, hits, rd,
                 mappings, last, pt, rq>>

\* A worker of the bulk processor sends a request it holds.  The workers
\* (runtime.NumCPU() of them) send independently of each other and of the
\* order of the Adds.
BulkCommit ==
  /\ mainpc = "wait" /\ bulk.open /\ bulk.buf # <<>>
  /\ \E k \in 1..Len(bulk.buf) :
       /\ es' = BulkApply(es, <<bulk.buf[k]>>)
       /\ bulk' = [bulk EXCEPT !.buf =
                     SubSeq(@, 1, k - 1) \o SubSeq(@, k + 1, Len(@))]
  /\ UNCHANGED <<path, filter, dataFile, mapFiles, run, cmd, mainpc, failedAt, reported,
                 group, hits, rd, wr, bar, mappings, hist, last, pt, rq>>

\* After the loop: bulk.Flush() returns when every worker has sent what it
\* holds; bulk.Close(); return nil.
SinkCloseBulk ==
  /\ cmd = "import" /\ wr.pc = "finish"
  /\ bulk.buf = <<>>
  /\ bulk' = [bulk EXCEPT !.open = FALSE]
  /\ wr' = [wr EXCEPT !.pc = "ret", !.err = Nil]
  /\ UNCHANGED <<world, run, cmd, mainpc, failedAt, reported, group, hits, rd, bar,
                 mappings, hist, last, pt, rq>>

\* ------------------------------------------------------------ specification
\* What the program itself does, the operator's invocations aside.
Program ==
  \/ connectElasticSource \/ readDataFromElastic \/ readMappingsFromElastic
  \/ writeMappingsToFile \/ writeDataToFile
  \/ connectElasticDest \/ readMappingsFromFile \/ writeMappingsAsStringToElastic
  \/ readDataFromFile \/ writeDataToElastic
  \/ Wait
  \/ ReaderScroll \/ ReaderSendHit \/ ReaderReadLine \/ ReaderSendLine
  \/ ReaderDone \/ SinkDone
  \/ SinkRecv \/ SinkWriteHit \/ SinkCloseFile \/ SinkAddHit \/ SinkCloseBulk
  \/ BulkCommit

Next ==
  \/ InvokeExport \/ InvokeImport
  \/ connectElasticSource \/ readDataFromElastic \/ readMappingsFromElastic
  \/ writeMappingsToFile \/ writeDataToFile
  \/ connectElasticDest \/ readMappingsFromFile \/ writeMappingsAsStringToElastic
  \/ readDataFromFile \/ writeDataToElastic
  \/ Wait
  \/ ReaderScroll \/ ReaderSendHit \/ ReaderReadLine \/ ReaderSendLine
  \/ ReaderDone \/ SinkDone
  \/ SinkRecv \/ SinkWriteHit \/ SinkCloseFile \/ SinkAddHit \/ SinkCloseBulk
  \/ BulkCommit

Spec == Init /\ [][Next]_vars

\* ------------------------------------------- the mapping file's path alone
\* Every path of at most MaxPathLen tokens, given to writeMappingsToFile
\* (by an export) and then to readMappingsFromFile (by an import).
Paths == UNION {[1..k -> PathTokens] : k \in 1..MaxPathLen}

PathInit ==
  /\ path \in {<<"out", ".json">>}
  /\ filter = NoFilter
  /\ RunOff
  /\ es = [i \in IndexNames |-> NoIndex]
  /\ dataFile = NoFile
  /\ mapFiles = [f \in MapPaths(path) |-> NoMapFile]
  /\ \E f \in Paths : pt = [file |-> f, w |-> <<>>, r |-> <<>>, step |-> "start"]
  /\ rq = RqOff

PathOnWrite ==
  /\ pt.step = "start"
  /\ pt' = [pt EXCEPT !.w = WriteMappingPath(pt.file), !.step = "written"]
  /\ UNCHANGED <<world, run, cmd, mainpc, failedAt, reported, group, tasks,
                 mappings, hist, last, rq>>

PathOnRead ==
  /\ pt.step = "written"
  /\ pt' = [pt EXCEPT !.r = ReadMappingPath(pt.file), !.step = "read"]
  /\ UNCHANGED <<world, run, cmd, mainpc, failedAt, reported, group, tasks,
                 mappings, hist, last, rq>>

PathNext == PathOnWrite \/ PathOnRead

PathSpec == PathInit /\ [][PathNext]_vars

\* ------------------------------------------------ the index request alone
\* writeDataToElastic's loop body for one line and one --dest-index, given
\* or empty: the line of any hit of any index, with its newline or
\* without, or a line that is no hit.
RequestHits ==
  {Hit(i, AllHits[k].id, AllHits[k].source) : i \in IndexNames, k \in 1..Len(AllHits)}
DestNames == {""} \cup IndexNames

RequestInit ==
  /\ path \in {<<"out", ".json">>}
  /\ filter = NoFilter
  /\ RunOff
  /\ es = [i \in IndexNames |-> NoIndex]
  /\ dataFile = NoFile
  /\ mapFiles = [f \in MapPaths(path) |-> NoMapFile]
  /\ pt = PtOff
  /\ \E d \in DestNames :
       \/ \E h \in RequestHits, end \in {<<>>, <<NL>>} :
            rq = [RqOff EXCEPT !.dst = d, !.hit = h, !.line = Marshal(h) \o end,
                               !.step = "start"]
       \/ rq = [RqOff EXCEPT !.dst = d, !.line = <<"garbage", NL>>, !.step = "start"]

RequestOnAdd ==
  /\ rq.step = "start"
  /\ rq' = [rq EXCEPT !.req = IndexRequest(rq.dst, Unmarshal(rq.line).hit),
                      !.step = "added"]
  /\ UNCHANGED <<world, run, cmd, mainpc, failedAt, reported, group, tasks,
                 mappings, hist, last, pt>>

RequestNext == RequestOnAdd

RequestSpec == RequestInit /\ [][RequestNext]_vars

\* ------------------------------------------- the export's two tasks alone
\* doExport at g.Wait, both tasks started, for any hits the scroll may
\* hand over: documents, and a hit json.Marshal returns an error for.
UnmarshalableHit == Hit("events", "z", <<"BAD">>)
SinkHits == {AllHits[1], AllHits[2], UnmarshalableHit}
SinkInputs == UNION {[1..k -> SinkHits] : k \in 0..MaxDocs}

SinkInit ==
  /\ path \in JobPaths
  /\ filter = NoFilter
  /\ es = [i \in IndexNames |-> NoIndex]
  /\ dataFile = [exists |-> TRUE, bytes |-> <<>>]
  /\ mapFiles = [f \in MapPaths(path) |-> NoMapFile]
  /\ run = 1 /\ cmd = "export" /\ mainpc = "wait" /\ failedAt = "" /\ reported = Nil
  /\ g = [err |-> Nil] /\ ctx = [done |-> FALSE]
  /\ hits = [closed |-> FALSE, buf |-> <<>>, closes |-> 0]
  /\ wr = [WrOff EXCEPT !.pc = "recv", !.outOpen = TRUE, !.gzOpen = HasGzSuffix(path)]
  /\ bulk = [open |-> FALSE, buf |-> <<>>]
  /\ mappings = EmptyObj
  /\ last = LastOff /\ pt = PtOff /\ rq = RqOff
  /\ \E s \in SinkInputs :
       /\ rd = [RdOff EXCEPT !.pc = "fetch", !.input = s]
       /\ hist = [HistOff EXCEPT !.src = s]
       /\ bar = [total |-> Len(s), n |-> 0]

SinkNext ==
  \/ ReaderScroll \/ ReaderSendHit \/ ReaderDone
  \/ SinkRecv \/ SinkWriteHit \/ SinkCloseFile \/ SinkDone
  \/ Wait

SinkSpec == SinkInit /\ [][SinkNext]_vars

\* ------------------------------------------------- the flag-based main
\* The main that takes --source and --dest, for the jobs whose source is
\* an endpoint: esToFile (an export, without mappings) and esToEs, for
\* which main starts the reader and no sink.
TransTypes == {"export", "esToEs"}

FlagInit ==
  /\ path \in JobPaths
  /\ filter \in Filters
  /\ RunOff
  /\ \/ \E n \in 0..MaxDocs :
          es = [i \in IndexNames |->
                  IF i = SrcIndex
                  THEN [exists |-> TRUE, mappings |-> FieldMappings,
                        docs |-> [k \in 1..n |-> Doc(AllHits[k].id, AllHits[k].source)]]
                  ELSE NoIndex]
     \/ es = [i \in IndexNames |-> NoIndex]
  /\ dataFile = NoFile
  /\ mapFiles = [f \in MapPaths(path) |-> NoMapFile]
  /\ pt = PtOff
  /\ rq = RqOff

\* flag.Parse, the channel and the group, the transfer type from the
\* prefixes of --source and --dest, and the check of --source-index.
mainParse ==
  /\ mainpc = "idle" /\ run = 0
  /\ run' = 1
  /\ cmd' \in TransTypes
  /\ \/ Fail("parse", ErrUsage)
     \/ mainpc' = "connect" /\ UNCHANGED <<failedAt, reported>>
  /\ UNCHANGED <<world, group, tasks, mappings, hist, last, pt, rq>>

\* setupElasticSource, and logger.Fatal on its error: the index must exist;
\* its documents are counted for the progress bar.
setupElasticSource ==
  /\ run = 1 /\ cmd \in TransTypes /\ mainpc = "connect"
  /\ \/ Fail("connect", ErrRemote) /\ UNCHANGED bar
     \/ /\ ~SourceIsThere(es[SrcIndex].exists)
        /\ Fail("connect", ErrNotFound) /\ UNCHANGED bar
     \/ /\ SourceIsThere(es[SrcIndex].exists)
        /\ bar' = [total |-> Len(Select(filter, HitsOf(es[SrcIndex], SrcIndex))), n |-> 0]
        /\ mainpc' = "startReader" /\ UNCHANGED <<failedAt, reported>>
  /\ UNCHANGED <<world, run, cmd, group, hits, rd, wr, bulk, mappings, hist, last, pt, rq>>

\* readDataFromElastic(ctx, g, client, hits): the reader's goroutine is
\* started.  For esToEs nothing follows it but g.Wait.
mainReadDataFromElastic ==
  /\ run = 1 /\ cmd \in TransTypes /\ mainpc = "startReader"
  /\ rd' = [RdOff EXCEPT !.pc = "fetch",
                         !.input = Select(filter, HitsOf(es[SrcIndex], SrcIndex))]
  /\ hist' = [hist EXCEPT !.src = Select(filter, HitsOf(es[SrcIndex], SrcIndex))]
  /\ mainpc' = IF cmd = "esToEs" THEN "wait" ELSE "startWriter"
  /\ UNCHANGED <<world, run, cmd, failedAt, reported, group, hits, wr, bulk, bar,
                 mappings, last, pt, rq>>

\* esToFile: writeDataToFile(ctx, g, dst, bar, hits), and logger.Fatal on
\* its error.
mainWriteDataToFile ==
  /\ run = 1 /\ cmd = "export" /\ mainpc = "startWriter"
  /\ \/ Fatal("start", ErrIO) /\ UNCHANGED dataFile
     \/ /\ dataFile' = [exists |-> TRUE, bytes |-> <<>>]
        /\ wr' = [WrOff EXCEPT !.pc = "recv", !.outOpen = TRUE,
                               !.gzOpen = HasGzSuffix(path)]
        /\ mainpc' = "wait"
        /\ UNCHANGED <<failedAt, reported, rd>>
  /\ UNCHANGED <<path, filter, es, mapFiles, run, cmd, group, hits, bulk, bar, mappings,
                 hist, last, pt, rq>>

\* g.Wait() returns when every task that was started has returned.
mainWait ==
  /\ mainpc = "wait"
  /\ rd.pc = "done"
  /\ IF cmd = "esToEs" THEN wr.pc = "off" ELSE wr.pc = "done"
  /\ ctx' = [done |-> TRUE]
  /\ IF g.err # Nil
     THEN Fail("join", g.err)
     ELSE mainpc' = "done" /\ UNCHANGED <<failedAt, reported>>
  /\ UNCHANGED <<world, run, cmd, g, tasks, mappings, hist, last, pt, rq>>

FlagNext ==
  \/ mainParse \/ setupElasticSource \/ mainReadDataFromElastic
  \/ mainWriteDataToFile \/ mainWait
  \/ ReaderScroll \/ ReaderSendHit \/ ReaderDone
  \/ SinkRecv \/ SinkWriteHit \/ SinkCloseFile \/ SinkDone

FlagSpec == FlagInit /\ [][FlagNext]_vars

\* One invocation of the program, from any initial world.  The Go scheduler
\* runs a goroutine that can run: the program does not stop while one of
\* its steps is possible.
FirstRun == Next /\ run' <= 1
FairSpec == Init /\ [][FirstRun]_vars /\ WF_vars(Program)

\* ------------------------------------------------------------------ claims
Joined == mainpc = "failed" /\ failedAt = "join"
Returned(t) == t.pc \in {"ret", "done"}
TaskFailed == (Returned(rd) /\ rd.err # Nil) \/ (Returned(wr) /\ wr.err # Nil)

\* C1: after a task has returned a non-nil error no task stays blocked on
\* the channel for ever: while main waits in g.Wait some step of the program
\* is possible.  In particular after readDataFromFile's task has returned a
\* read error in the middle of the file.
C1_NoTaskBlockedForEver ==
  (TaskFailed /\ mainpc = "wait" /\ cmd = "import" /\ Len(hist.received) >= 1)
     => ENABLED Program

\* The same as a leads-to, under FairSpec: a task's error leads to Failed.
ErrorLeadsToFailed == TaskFailed ~> (mainpc = "failed")

\* C2: once a write of the File Sink Writer has failed at record k (and the
\* reader has met no error of its own), the reader hands over at most one
\* further document, the run does not end in Done, and a run that fails at
\* the join reports the write error.
C2_SinkErrorStopsReader ==
  (cmd = "export" /\ hist.writeFailedAt > 0 /\ rd.err = Nil) =>
     /\ Len(hist.received) <= hist.writeFailedAt + 1
     /\ mainpc # "done"
     /\ (Joined => reported = ErrIO)

\* C3: a run that fails at the join reports the error of the task that
\* failed first, never the cancellation error the other task returns.
C3_FirstErrorReported ==
  Joined => (reported = hist.firstErr /\ reported # ErrCanceled)

C3_Witness == Joined /\ rd.err = ErrRemote /\ wr.err = ErrCanceled

\* C4: what the sink has received so far is a prefix of what the reader
\* emits, in the source's order: nothing reordered, duplicated or dropped.
C4_ReceivedIsPrefix == IsPrefix(hist.received, hist.src)

C4_Witness ==
  /\ cmd = "export" /\ Len(hist.received) > PageSize
  /\ hist.received = hist.src

\* C5: the reader has taken at most one document more than the sink has
\* received.
C5_SingleSlot ==
  /\ Len(hist.received) <= hist.taken
  /\ hist.taken <= Len(hist.received) + 1

C5_Witness ==
  /\ rd.pc = "send" /\ wr.pc = "proc"
  /\ hist.taken = Len(hist.received) + 1 /\ Len(hist.received) >= 2

\* What the File Source Reader has handed over, unmarshalled.
ReadBackHits == [k \in 1..Len(hist.received) |-> Unmarshal(hist.received[k]).hit]
AfterDoneExport == cmd = "import" /\ last.cmd = "export" /\ last.mainpc = "done"

\* C6: after an export that ended without error, a File Source Reader that
\* reads the data file to its end has emitted the documents the File Sink
\* Writer consumed, in their order, with their index, id and source.
C6_RoundTrip ==
  (AfterDoneExport /\ Returned(rd) /\ rd.err = Nil) => ReadBackHits = last.consumed

\* The same for an export none of whose writes to the file failed.
RoundTripOfWrittenFile ==
  (AfterDoneExport /\ last.writeFailedAt = 0 /\ Returned(rd) /\ rd.err = Nil)
     => ReadBackHits = last.consumed

\* A data file that is a batch of well-formed documents with distinct
\* ids, twice.
Half(s) == SubSeq(s, 1, Len(s) \div 2)
IsReplay(s) ==
  /\ Len(s) >= 2 /\ Len(s) % 2 = 0
  /\ SubSeq(s, Len(s) \div 2 + 1, Len(s)) = Half(s)
  /\ \A k \in 1..Len(s) : Unmarshal(s[k]).ok
  /\ \A j, k \in 1..(Len(s) \div 2) :
       Unmarshal(s[j]).hit.id = Unmarshal(s[k]).hit.id => j = k
\* The documents of the batch, once.
OnceDocs(b) == {Doc(Unmarshal(b[k]).hit.id, Unmarshal(b[k]).hit.source) : k \in 1..Len(b)}
DocSet(docs) == {docs[k] : k \in 1..Len(docs)}

\* C7: an import of a batch written twice ends with the destination as one
\* application of the batch leaves it: the batch's ids, each once, each
\* with its source.
C7_ReplayIsIdempotent ==
  (cmd = "import" /\ mainpc = "done" /\ IsReplay(hist.src)) =>
     /\ DocSet(es[DstIndex].docs) = OnceDocs(Half(hist.src))
     /\ Len(es[DstIndex].docs) = Len(hist.src) \div 2

C7_Witness ==
  /\ cmd = "import" /\ mainpc = "done" /\ IsReplay(hist.src)
  /\ Len(hist.consumed) = Len(hist.src)
  /\ Len(es[DstIndex].docs) >= 2

Rerun == cmd = "import" /\ last.cmd = "import" /\ last.failedAt = "join"
IdsOnce(docs) == \A j, k \in 1..Len(docs) : docs[j].id = docs[k].id => j = k

\* C8 as stated: an import re-invoked after an import that failed at the
\* join, the endpoint answering, ends in Done with every id once.
C8_RerunCompletes ==
  (Rerun /\ mainpc \in {"done", "failed"} /\ reported # ErrRemote) =>
     (mainpc = "done" /\ IdsOnce(es[DstIndex].docs))

\* C8, amended: such an import is refused by connectElasticDest (the index
\* exists, or the endpoint does not answer): it creates nothing, reads no
\* line and leaves the endpoint as the failed import left it.
C8_RerunIsRefused ==
  Rerun =>
     /\ mainpc \in {"connect", "failed"}
     /\ (mainpc = "failed" => failedAt = "connect" /\ reported \in {ErrExists, ErrRemote})
     /\ es = last.es
     /\ hist.taken = 0 /\ hist.createBody = {}

C8_Witness ==
  /\ Rerun /\ mainpc = "failed" /\ reported = ErrExists
  /\ Len(es[DstIndex].docs) >= 1

SingleKey == Cardinality(Keys(mappings)) = 1
CreateRequested == cmd = "import" /\ hist.createBody # {} /\ SingleKey

\* C9 as stated: the body of the create request is the field-mapping
\* section of the mapping file and nothing else.
C9_BodyIsFieldSection ==
  CreateRequested =>
     \A k \in Keys(mappings) :
        hist.createBody = Member(Member(mappings, k), "mappings")

\* C9, amended: the body of the create request is an object with the one
\* key "mappings", whose value is the mapping file's "mappings" section; the
\* origin index name is in none of its paths.
C9_BodyIsMappingsObject ==
  CreateRequested =>
     \A k \in Keys(mappings) :
        /\ Keys(hist.createBody) = {"mappings"}
        /\ Member(hist.createBody, "mappings") = Member(Member(mappings, k), "mappings")
        /\ \A p \in hist.createBody : \A n \in 1..Len(p) : p[n] # k

C9_Witness ==
  /\ CreateRequested /\ hist.created
  /\ mappings = RichMapping
  /\ es[DstIndex].mappings = FieldMappings

\* C10: readMappingsFromFile derives the path writeMappingsToFile derived
\* from the same data-file path.
C10_SameMappingPath == pt.step = "read" => pt.r = pt.w

\* The destination of this run has been given a record: a line for the data
\* file, or a request for the bulk processor.
DataWritten ==
  \/ cmd = "export" /\ (wr.buf # <<>> \/ hist.consumed # <<>>)
  \/ cmd = "import" /\ (bulk.buf # <<>> \/ hist.consumed # <<>>)
\* The mappings are where this run puts them: in the mapping file beside
\* the data file, or in the index the create request has made.
SchemaDone ==
  IF cmd = "export"
  THEN mapFiles[WriteMappingPath(path)] =
         [exists |-> TRUE, json |-> GetMapping(es[SrcIndex], SrcIndex)]
  ELSE hist.created /\ es[DstIndex].exists

\* C11: no record is written to the destination before the mappings are:
\* the create request has succeeded before the first bulk add of an import,
\* the mapping file is written before the first line of an export.
C11_SchemaBeforeData == DataWritten => SchemaDone

C11_Witness ==
  /\ cmd = "import" /\ last.cmd = "export" /\ last.mainpc = "done"
  /\ Len(last.consumed) >= 2
  /\ DataWritten /\ Len(es[DstIndex].docs) >= 2 /\ SchemaDone

\* The destination index existed when this import was started.
DestExisted == cmd = "import" /\ last.es[DstIndex].exists

\* C12: an import whose destination index exists stops in
\* connectElasticDest, with "index exists" when the existence check has
\* answered: no create request is made, no line is read, no request is
\* added to the bulk processor and the endpoint stays as it was.
C12_ExistingDestRefused ==
  DestExisted =>
     /\ mainpc \in {"connect", "failed"}
     /\ (mainpc = "failed" =>
           failedAt = "connect" /\ reported \in {ErrExists, ErrRemote})
     /\ hist.createBody = {} /\ ~hist.created
     /\ hist.taken = 0 /\ rd.pc = "off" /\ wr.pc = "off"
     /\ bulk.buf = <<>> /\ ~bulk.open
     /\ es = last.es

C12_Witness ==
  /\ DestExisted /\ last.mainpc = "done" /\ Len(last.consumed) >= 2
  /\ mainpc = "failed" /\ failedAt = "connect" /\ reported = ErrExists

\* The source index does not exist when this export is started.
SourceMissing == cmd = "export" /\ ~last.es[SrcIndex].exists

\* C13: an export whose source index does not exist stops before its
\* tasks are started, in connectElasticSource with "index does not exist"
\* when the existence check has answered: no page is fetched, no mapping
\* file is written and no line is written to the data file.
C13_MissingSourceRefused ==
  SourceMissing =>
     /\ mainpc \in {"connect", "failed"}
     /\ (mainpc = "failed" =>
           \/ failedAt = "parse" /\ reported = ErrUsage
           \/ failedAt = "connect" /\ reported \in {ErrNotFound, ErrRemote})
     /\ rd.pc = "off" /\ hist.taken = 0 /\ hist.src = <<>>
     /\ mapFiles = last.mapFiles
     /\ wr.pc = "off" /\ hist.consumed = <<>>
     /\ (failedAt # "parse" => dataFile.bytes = <<>>)

C13_Witness ==
  /\ SourceMissing /\ mainpc = "failed" /\ failedAt = "connect"
  /\ reported = ErrNotFound /\ dataFile = [exists |-> TRUE, bytes |-> <<>>]

\* The ids of a sequence of hits.
IdsOf(hs) == {hs[k].id : k \in 1..Len(hs)}
InRange(d) ==
  filter.start < TimeOf(d.source) /\ TimeOf(d.source) <= filter.end

\* C14: with a time field set, the scan returns a document of the index if
\* and only if start < v <= end for its time v, the count of
\* connectElasticSource is the number of these documents, and an export
\* that ends in Done has handed exactly these to the sink.
C14_TimeRange ==
  (cmd = "export" /\ rd.pc # "off" /\ filter.field # "") =>
     /\ \A k \in 1..Len(es[SrcIndex].docs) :
          (es[SrcIndex].docs[k].id \in IdsOf(hist.src)) <=> InRange(es[SrcIndex].docs[k])
     /\ bar.total = Len(hist.src)
     /\ (mainpc = "done" => IdsOf(hist.consumed) = IdsOf(hist.src))

\* Times 1, 2, 3 in the index and the range (1, 2]: only the document of
\* time 2 is exported.
C14_Witness ==
  /\ cmd = "export" /\ mainpc = "done"
  /\ filter = [field |-> "ts", start |-> 1, end |-> 2]
  /\ Len(es[SrcIndex].docs) = 3
  /\ hist.consumed = <<AllHits[2]>>

\* An import of the file that an export of the whole index of three
\* documents has left, no call of that export having failed.
ExportedThree ==
  /\ cmd = "import" /\ AfterDoneExport /\ last.writeFailedAt = 0
  /\ filter = NoFilter
  /\ IdsOf(HitsOf(es[SrcIndex], SrcIndex)) = {"a", "b", "c"}

\* C15: the export of an index with the documents a, b, c leaves a data
\* file of exactly three lines, and an import of that file that ends in
\* Done leaves the new index with exactly these three documents, their
\* sources, and the field mappings of the source index.
C15_EndToEnd ==
  ExportedThree =>
     /\ Len(LinesOf(IF HasGzSuffix(path) THEN GzData(dataFile.bytes)
                    ELSE dataFile.bytes)) = 3
     /\ (HasGzSuffix(path) => GzOpenOK(dataFile.bytes) /\ GzComplete(dataFile.bytes))
     /\ (mainpc = "done" =>
           /\ es[DstIndex].exists
           /\ es[DstIndex].docs = es[SrcIndex].docs
           /\ es[DstIndex].mappings = es[SrcIndex].mappings)

C15_Witness ==
  /\ ExportedThree /\ mainpc = "done"
  /\ Len(es[DstIndex].docs) = 3 /\ Len(hist.consumed) = 3

\* The lines the Remote Sink Writer has consumed that are documents.
RECURSIVE WellFormed(_)
WellFormed(ls) ==
  IF ls = <<>> THEN <<>>
  ELSE (IF Unmarshal(Head(ls)).ok THEN <<Head(ls)>> ELSE <<>>) \o WellFormed(Tail(ls))

\* C16: a line that is no document is skipped by the Remote Sink Writer: no
\* index request is made for it, so every request the bulk processor
\* holds and every document of the destination carries the id of a
\* well-formed line that was consumed.
C16_MalformedSkipped ==
  cmd = "import" =>
     /\ \A k \in 1..Len(bulk.buf) :
          \E j \in 1..Len(hist.consumed) :
             /\ Unmarshal(hist.consumed[j]).ok
             /\ Unmarshal(hist.consumed[j]).hit.id = bulk.buf[k].id
     /\ Len(es[DstIndex].docs) <= Len(WellFormed(hist.consumed))

\* C17: the index request made from the line of a document names the
\* index of --dest-index when that is given and the document's own index
\* when it is empty, and carries the document's own id and source.
C17_RequestTarget ==
  (rq.step = "added" /\ rq.hit # ZeroHit) =>
     /\ rq.req.index = (IF rq.dst # "" THEN rq.dst ELSE rq.hit.index)
     /\ rq.req.id = rq.hit.id
     /\ rq.req.source = rq.hit.source

C17_Witness ==
  /\ rq.step = "added" /\ rq.dst = "events2"
  /\ rq.hit = Hit("events", "b", <<NL>>)
  /\ rq.req = BulkRequest("events2", "b", <<NL>>)

\* The same in a run of the program: every request the bulk processor
\* holds is made from a line the sink has consumed.
RequestsOfConsumed ==
  cmd = "import" =>
     \A k \in 1..Len(bulk.buf) :
        \E j \in 1..Len(hist.consumed) :
           bulk.buf[k] = IndexRequest(DstIndex, Unmarshal(hist.consumed[j]).hit)

\* C18: a run whose tasks are started and in which no task returns an
\* error and no call fails ends in Done: the reader comes to the end of
\* its input and closes the channel, the sink receives what was sent,
\* flushes and closes, and the join completes.
C18_FiniteRunEnds ==
  (mainpc = "wait") ~> (mainpc = "done" \/ mainpc = "failed" \/ TaskFailed)

C18_Witness ==
  /\ cmd = "import" /\ mainpc = "done" /\ ~TaskFailed
  /\ hits.closed /\ rd.pc = "done" /\ wr.pc = "done"
  /\ Len(hist.src) >= 2 /\ hist.consumed = hist.src /\ ~bulk.open

\* C19: when the File Sink Writer's task has returned, after the end of the
\* stream or on cancellation, the bufio.Writer is flushed and the
\* compressor and the file are closed: unless a write to the file failed,
\* every line it wrote is in the file.
C19_SinkFlushedOnReturn ==
  (cmd = "export" /\ Returned(wr) /\ ~wr.failed) =>
     /\ wr.buf = <<>>
     /\ ~wr.gzOpen /\ ~wr.outOpen
     /\ (HasGzSuffix(path) => GzComplete(dataFile.bytes))

\* C20: when the Remote Sink Writer's task has returned the cancellation
\* error (every line it consumed being a document), the bulk processor is
\* flushed and closed: it holds no request that was added and not sent.
C20_BulkFlushedOnCancel ==
  (/\ cmd = "import" /\ Returned(wr) /\ wr.err = ErrCanceled
   /\ WellFormed(hist.consumed) = hist.consumed) =>
     /\ bulk.buf = <<>>
     /\ ~bulk.open

\* C21: whenever readDataFromFile's task has returned, at the end of the
\* stream or with a read error, the file is closed and so is the gzip
\* reader of a ".gz" path.
C21_ReaderClosedOnReturn ==
  (cmd = "import" /\ Returned(rd)) => (~rd.inOpen /\ ~rd.gzOpen)

\* The lines of the data file, as a reader of the file finds them, and the
\* hits of a sequence that json.Marshal accepts.
FileLines ==
  LinesOf(IF HasGzSuffix(path) THEN GzData(dataFile.bytes) ELSE dataFile.bytes)
RECURSIVE Serialized(_)
Serialized(hs) ==
  IF hs = <<>> THEN <<>>
  ELSE (IF MarshalFails(Head(hs)) THEN <<>> ELSE <<Head(hs)>>) \o Serialized(Tail(hs))

\* C22: a hit that json.Marshal fails on is skipped by the File Sink Writer:
\* after an export that ended in Done, none of whose writes failed, the data
\* file holds no empty line and as many lines as hits were serialized.
C22_UnserializableSkipped ==
  (cmd = "export" /\ mainpc = "done" /\ hist.writeFailedAt = 0) =>
     /\ Len(FileLines) = Len(Serialized(hist.consumed))
     /\ \A k \in 1..Len(FileLines) : FileLines[k] # <<NL>>

\* C23: a write to the data file that fails is fatal to the export: the
\* File Sink Writer's task returns an error, and the run does not end in
\* Done once a line failed to be written (the reader meeting no error of
\* its own).
C23_WriteFailureIsFatal ==
  (cmd = "export" /\ hist.writeFailedAt > 0 /\ rd.err = Nil) =>
     /\ Returned(wr) => wr.err # Nil
     /\ mainpc # "done"

\* C24: when readDataFromElastic's task has returned, the channel is closed;
\* it has returned nil only at the end of the results, with every document
\* of the source handed over, and it has returned the error of a failed
\* scroll.Do with every document of the pages fetched before handed over.
\* It returns nothing but nil, the scroll's error or the context's error.
C24_ReaderReturn ==
  (cmd = "export" /\ Returned(rd)) =>
     /\ hits.closed
     /\ rd.err \in {Nil, ErrRemote, ErrCanceled}
     /\ rd.err = Nil => (rd.input = <<>> /\ rd.page = <<>> /\ hist.received = hist.src)
     /\ rd.err = ErrRemote =>
          (rd.page = <<>> /\ hist.received \o rd.input = hist.src)

C24_Witness ==
  /\ cmd = "export" /\ Returned(rd) /\ rd.err = ErrRemote /\ hits.closed
  /\ Len(hist.received) = PageSize /\ rd.input # <<>>

\* The bytes readDataFromFile reads: the file's, or what gzip makes of them.
SourceBytes == IF HasGzSuffix(path) THEN GzData(dataFile.bytes) ELSE dataFile.bytes
NewlineCount(s) == Cardinality({k \in 1..Len(s) : s[k] = NL})

\* C25: what the File Source Reader has handed over are the first lines of
\* its input, in order, each ending in its newline and holding no other;
\* when its task has returned nil the channel is closed and all that is
\* left of the input holds no newline: every terminated line was handed
\* over, and bytes after the last newline were not.
C25_LinesOfInput ==
  (cmd = "import" /\ rd.pc # "off") =>
     /\ IsPrefix(Flatten(hist.received), SourceBytes)
     /\ \A k \in 1..Len(hist.received) :
          LET l == hist.received[k]
          IN l # <<>> /\ l[Len(l)] = NL /\ NewlineCount(l) = 1
     /\ (Returned(rd) /\ rd.err = Nil) =>
          /\ hits.closed
          /\ NewlineCount(SourceBytes) = Len(hist.received)

C25_Witness ==
  /\ cmd = "import" /\ Returned(rd) /\ rd.err = Nil /\ hits.closed
  /\ Len(hist.received) = 1
  /\ Len(Flatten(hist.received)) < Len(SourceBytes)

\* C26: writeMappingsAsStringToElastic ends with the index made or with an
\* error value, never with a panic: an import that failed at the schema
\* reports an error of reading the mapping file, RemoteUnavailable,
\* SchemaParseError or CollectionAlreadyExists, and SchemaParseError for a
\* mapping file that is no JSON object.
C26_SchemaOutcome ==
  (cmd = "import" /\ mainpc = "failed" /\ failedAt = "schema") =>
     /\ reported \in {ErrSchemaMissing, ErrIO, ErrRemote, ErrParse, ErrExists}
     /\ ~IsObject(mappings) => reported = ErrParse

\* main is reading or writing the mappings.
SchemaInProgress == mainpc \in {"readMappings", "writeMappings", "applyMappings"}

\* C27: while the mappings are being transferred the sink's task is not
\* started and the reader has fetched no page and read no line.
C27_TasksAfterSchema ==
  SchemaInProgress => (wr.pc = "off" /\ hist.taken = 0)

C29_RemoteToRemoteEnds ==
  (cmd = "esToEs" /\ mainpc = "wait") => ENABLED FlagNext

\* C30: in every run the channel is closed at most once, and by the
\* reader's task as it returns: a closed channel means the reader has
\* left its loop, and the reader is never about to send on a closed
\* channel.
C30_ClosedOnceByReader ==
  /\ hits.closes <= 1
  /\ hits.closed = (hits.closes > 0)
  /\ hits.closed => rd.pc \in {"ret", "done", "killed"}
  /\ rd.pc = "send" => ~hits.closed

C30_Witness ==
  /\ cmd = "export" /\ rd.err = ErrRemote /\ rd.pc = "done"
  /\ hits.closes = 1 /\ wr.pc = "done" /\ Len(hist.received) >= PageSize

\* C31: a sink's task returns nil or the context's error and nothing else,
\* so it is never the first task to fail: before g.Wait returns the
\* context is cancelled only by an error the reader's task returned, the
\* first error returned is the reader's, and the reader itself never
\* returns the context's error from its select.
C31_SinkNeverFailsFirst ==
  /\ Returned(wr) => wr.err \in {Nil, ErrCanceled}
  /\ rd.err # ErrCanceled
  /\ (ctx.done /\ mainpc = "wait") => (rd.pc = "done" /\ rd.err \in {ErrRemote, ErrIO})
  /\ (Returned(wr) /\ wr.err = ErrCanceled) =>
        (Returned(rd) /\ rd.err # Nil /\ hist.firstErr = rd.err)

C31_Witness ==
  /\ cmd = "import" /\ mainpc = "wait" /\ ctx.done
  /\ rd.pc = "done" /\ rd.err = ErrIO
  /\ wr.pc = "done" /\ wr.err = ErrCanceled /\ g.err = ErrIO

\* C32: when readDataFromElastic's task has failed on a scroll and the File
\* Sink Writer's task has returned (no write to the file having failed),
\* the data file holds the lines of all the records the sink received,
\* whichever the sink saw first, the closed channel or the cancelled
\* context.
C32_SameFileInEveryInterleaving ==
  (/\ cmd = "export" /\ Returned(rd) /\ rd.err = ErrRemote
   /\ Returned(wr) /\ hist.writeFailedAt = 0 /\ ~wr.failed) =>
     FileLines = [k \in 1..Len(hist.received) |-> Marshal(hist.received[k]) \o <<NL>>]

====
